---- MODULE Spec2Model ----
(***************************************************************************)
(* A model of bin/generate_files.py: the script that materialises the      *)
(* example media and binary files.  The state is the file system below the *)
(* project root, the lines printed, the external invocations made, the     *)
(* working directory and the exit status of the process.  The external     *)
(* tools are the environment: which of the tools the script probes for     *)
(* (ffmpeg, zip, gzip, tar) are installed, and which invocations of the    *)
(* installed tools and of cp and mv fail, is fixed when a behaviour starts *)
(* and stays fixed over repeated runs.                                     *)
(***************************************************************************)
EXTENDS Naturals, Sequences, FiniteSets, TLC

VARIABLES
    avail,      \* probed tool -> BOOLEAN: check_command finds the tool
    failing,    \* the invocation sites whose command fails
    dirs,       \* the output directories that exist
    fs,         \* path -> content, the files that exist
    out,        \* the lines printed by the current run
    att,        \* invocation site -> number of times it was invoked in this run
    cwd,        \* the working directory of the process
    chdirs,     \* the directories os.chdir was called with in this run
    pc,         \* "import" | "main" | "exited"
    done,       \* the generators that have been called in this run
    crashedIn,  \* the generator an exception escaped from, or "none"
    exitCode,   \* exit status of the process once pc = "exited"
    run,        \* 1 for the first run of the script, 2 for the second
    fsPrev,     \* the file system as the previous run left it
    exitPrev    \* the exit status of the previous run

vars == <<avail, failing, dirs, fs, out, att, cwd, chdirs, pc, done,
          crashedIn, exitCode, run, fsPrev, exitPrev>>

\* At most this many invocation sites exit non-zero in one environment.
MaxFailures == 1

-----------------------------------------------------------------------------
(* Paths.  Files are named relative to PROJECT_ROOT.                       *)

AUDIO_DIR == "audio"
VIDEO_DIR == "video"
IMAGES_DIR == "images"
OTHER_DIR == "other"

\* The directory the script was launched from (os.getcwd() at entry).
LAUNCH_DIR == "launch"

\* Path / name
join(dir, name) == dir \o "/" \o name

\* The tools the script probes with check_command before it uses them.
Tools == {"ffmpeg", "zip", "gzip", "tar"}

-----------------------------------------------------------------------------
(* The interpreter state threaded through a routine: the mutable part of   *)
(* the process plus the exception that is propagating, if any.             *)

NONE == "none"
CalledProcessError == "CalledProcessError"
FileNotFoundError == "FileNotFoundError"
AnyException == {CalledProcessError, FileNotFoundError}

Exists(s, path) == path \in DOMAIN s.fs

\* print(...): skipped while an exception propagates.
print(s, line) ==
    IF s.raised # NONE THEN s ELSE [s EXCEPT !.out = @ \cup {line}]

WriteFs(f, path, content) == (path :> content) @@ f

RemoveFs(f, path) == [p \in DOMAIN f \ {path} |-> f[p]]

\* Path.write_bytes / Path.write_text: creates or overwrites.
write_bytes(s, path, content) ==
    IF s.raised # NONE THEN s ELSE [s EXCEPT !.fs = WriteFs(@, path, content)]

\* Path.unlink(): FileNotFoundError when the file is missing.
unlink(s, path) ==
    IF s.raised # NONE THEN s
    ELSE IF Exists(s, path) THEN [s EXCEPT !.fs = RemoveFs(@, path)]
    ELSE [s EXCEPT !.raised = FileNotFoundError]

\* os.chdir(dir)
chdir(s, dir) ==
    IF s.raised # NONE THEN s
    ELSE [s EXCEPT !.cwd = dir, !.chdirs = Append(@, dir)]

\* Mutation of finally_chdir: the chdir back placed at the end of the try body
\* instead of in a finally clause, so that an exception skips it.
chdir_back_in_try_body(s, dir) ==
    IF s.raised # NONE THEN s ELSE [s EXCEPT !.cwd = dir, !.chdirs = Append(@, dir)]

\* The finally clause os.chdir(original_cwd): runs whether or not the body
\* raised, and leaves the exception propagating.
finally_chdir(s, dir) == [s EXCEPT !.cwd = dir, !.chdirs = Append(@, dir)]

\* except <kinds>: print(warning)
except(s, kinds, warning) ==
    IF s.raised \in kinds
    THEN [s EXCEPT !.raised = NONE, !.out = @ \cup {warning}]
    ELSE s

\* shutil.which(cmd) and the `cmd --version` probe.
check_command(cmd) == avail[cmd]

\* How subprocess.run([tool, ...], check=True) ends at `site`.  cp and mv are
\* run unprobed: a failing cp or mv site stands for a non-zero exit as well as
\* for a missing command, which both raise out of subprocess.run and which no
\* handler of the script tells apart.
Outcome(tool, site) ==
    IF tool \in Tools /\ ~avail[tool] THEN FileNotFoundError
    ELSE IF site \in failing THEN CalledProcessError
    ELSE "ok"

Count(a, site) == IF site \in DOMAIN a THEN a[site] ELSE 0

Bump(a, site) == (site :> Count(a, site) + 1) @@ a

\* subprocess.run(..., check=True) of `tool` at `site`.  `usable` says that
\* the command's inputs exist; `effect` is the file system a successful
\* command leaves.  A command that fails leaves the file system as it was.
subprocess_run(s, tool, site, usable, effect) ==
    IF s.raised # NONE THEN s
    ELSE LET s1 == [s EXCEPT !.att = Bump(@, site)]
             r == Outcome(tool, site)
         IN  IF r # "ok" THEN [s1 EXCEPT !.raised = r]
             ELSE IF ~usable THEN [s1 EXCEPT !.raised = CalledProcessError]
             ELSE [s1 EXCEPT !.fs = effect]

-----------------------------------------------------------------------------
(* ffmpeg.  A file written by ffmpeg is identified by the command line     *)
(* that made it: the base command (synthetic source) and the format flags. *)

FfmpegFile(base_cmd, args) == [tool |-> "ffmpeg", base |-> base_cmd, args |-> args]

\* subprocess.run(base_cmd + extra_args + [str(path)], capture_output=True, check=True)
ffmpeg(s, base_cmd, args, path) ==
    subprocess_run(s, "ffmpeg", path, TRUE,
                   WriteFs(s.fs, path, FfmpegFile(base_cmd, args)))

\* The loop body shared by the three format tables:
\*   try: run; print("Generated ...")
\*   except subprocess.CalledProcessError as e: print("Warning: ...")
RECURSIVE for_each_format(_, _, _, _, _)
for_each_format(s, dir, base_cmd, table, i) ==
    IF i > Len(table) \/ s.raised # NONE THEN s
    ELSE LET filename == table[i][1]
             s1 == ffmpeg(s, base_cmd, table[i][2], join(dir, filename))
             s2 == print(s1, "Generated " \o filename)
             s3 == except(s2, {CalledProcessError},
                          "Warning: Could not generate " \o filename \o ": " \o CalledProcessError)
         IN  for_each_format(s3, dir, base_cmd, table, i + 1)

\* try: run; print(generated)  except: print(warning)      (a bare except)
try_ffmpeg(s, base_cmd, args, path, generated, warning) ==
    except(print(ffmpeg(s, base_cmd, args, path), generated), AnyException, warning)

-----------------------------------------------------------------------------
(* generate_audio_files                                                    *)

audio_base_cmd == <<"ffmpeg", "-f", "lavfi", "-i", "sine=frequency=440:duration=2", "-y">>

audio_files == <<
    <<"example.mp3", <<"-codec:a", "libmp3lame", "-b:a", "128k">> >>,
    <<"example.wav", <<"-codec:a", "pcm_s16le">> >>,
    <<"example.ogg", <<"-codec:a", "libvorbis", "-b:a", "128k">> >>,
    <<"example.oga", <<"-codec:a", "libvorbis", "-b:a", "128k">> >>,
    <<"example.spx", <<"-codec:a", "libspeex", "-b:a", "16k">> >>,
    <<"example.aac", <<"-codec:a", "aac", "-b:a", "128k">> >>,
    <<"example.adts", <<"-codec:a", "aac", "-b:a", "128k">> >>,
    <<"example.flac", <<"-codec:a", "flac">> >>,
    <<"example.m4a", <<"-codec:a", "aac", "-b:a", "128k", "-f", "mp4">> >>,
    <<"example.weba", <<"-codec:a", "libopus", "-b:a", "128k", "-f", "webm">> >> >>

midi_content == <<
    77, 84, 104, 100, 0, 0, 0, 6,
    0, 1, 0, 1, 0, 96,
    77, 84, 114, 107, 0, 0, 0, 11,
    0, 255, 81, 3, 7, 161, 32,
    0, 144, 60, 96,
    96, 128, 60, 0,
    0, 255, 47, 0 >>

\* Mutation of midi_names: the last write repeats the .kar name.
midi_names_kar_twice == <<"example.mid", "example.midi", "example.kar", "example.kar">>

\* The names midi_content is written under.
midi_names == <<"example.mid", "example.midi", "example.kar", "example.rmi">>

generate_audio_files(s) ==
    IF ~check_command("ffmpeg")
    THEN print(s, "Warning: ffmpeg not found. Skipping audio file generation.")
    ELSE LET s1 == try_ffmpeg(s, audio_base_cmd, <<"-codec:a", "wmav2", "-b:a", "128k">>,
                              join(AUDIO_DIR, "example.wma"), "Generated example.wma",
                              "Warning: Could not generate WMA file (codec may not be available)")
             s2 == write_bytes(s1, join(AUDIO_DIR, midi_names[1]), midi_content)
             s3 == write_bytes(s2, join(AUDIO_DIR, midi_names[2]), midi_content)
             s4 == write_bytes(s3, join(AUDIO_DIR, midi_names[3]), midi_content)
             s5 == write_bytes(s4, join(AUDIO_DIR, midi_names[4]), midi_content)
             s6 == print(s5, "Generated MIDI files (example.mid, example.midi, example.kar, example.rmi)")
         IN  for_each_format(s6, AUDIO_DIR, audio_base_cmd, audio_files, 1)

-----------------------------------------------------------------------------
(* generate_video_files                                                    *)

video_base_cmd == <<"ffmpeg", "-f", "lavfi", "-i", "testsrc=duration=5:size=640x480:rate=30", "-y">>

video_files == <<
    <<"example.mp4", <<"-codec:v", "libx264", "-codec:a", "aac", "-pix_fmt", "yuv420p">> >>,
    <<"example.mp4v", <<"-codec:v", "libx264", "-codec:a", "aac", "-pix_fmt", "yuv420p">> >>,
    <<"example.mpg4", <<"-codec:v", "libx264", "-codec:a", "aac", "-pix_fmt", "yuv420p">> >>,
    <<"example.webm", <<"-codec:v", "libvpx-vp9", "-codec:a", "libopus">> >>,
    <<"example.ogv", <<"-codec:v", "libtheora", "-codec:a", "libvorbis">> >>,
    <<"example.avi", <<"-codec:v", "libx264", "-codec:a", "aac", "-f", "avi">> >>,
    <<"example.mov", <<"-codec:v", "libx264", "-codec:a", "aac", "-f", "mov">> >>,
    <<"example.qt", <<"-codec:v", "libx264", "-codec:a", "aac", "-f", "mov">> >>,
    <<"example.mkv", <<"-codec:v", "libx264", "-codec:a", "aac", "-f", "matroska">> >>,
    <<"example.mpeg", <<"-codec:v", "mpeg2video", "-codec:a", "mp2", "-f", "mpeg">> >>,
    <<"example.mpg", <<"-codec:v", "mpeg2video", "-codec:a", "mp2", "-f", "mpeg">> >>,
    <<"example.mpe", <<"-codec:v", "mpeg2video", "-codec:a", "mp2", "-f", "mpeg">> >>,
    <<"example.m1v", <<"-codec:v", "mpeg2video", "-f", "mpeg1video">> >>,
    <<"example.m2v", <<"-codec:v", "mpeg2video", "-f", "mpeg2video">> >>,
    <<"example.mpa", <<"-codec:a", "mp2", "-f", "mpeg">> >>,
    <<"example.h264", <<"-codec:v", "libx264", "-codec:a", "aac", "-pix_fmt", "yuv420p">> >> >>

generate_video_files(s) ==
    IF ~check_command("ffmpeg")
    THEN print(s, "Warning: ffmpeg not found. Skipping video file generation.")
    ELSE LET s1 == try_ffmpeg(s, video_base_cmd,
                              <<"-codec:v", "libx264", "-codec:a", "aac", "-s", "320x240", "-f", "3gp">>,
                              join(VIDEO_DIR, "example.3gp"), "Generated example.3gp",
                              "Warning: Could not generate 3GP file")
             s2 == try_ffmpeg(s1, video_base_cmd,
                              <<"-codec:v", "libx264", "-codec:a", "aac", "-s", "320x240", "-f", "3g2">>,
                              join(VIDEO_DIR, "example.3g2"), "Generated example.3g2",
                              "Warning: Could not generate 3G2 file")
             s3 == try_ffmpeg(s2, video_base_cmd,
                              <<"-codec:v", "libx264", "-codec:a", "aac", "-f", "flv">>,
                              join(VIDEO_DIR, "example.flv"), "Generated example.flv",
                              "Warning: Could not generate FLV file")
         IN  for_each_format(s3, VIDEO_DIR, video_base_cmd, video_files, 1)

-----------------------------------------------------------------------------
(* generate_image_files                                                    *)

image_base_cmd == <<"ffmpeg", "-f", "lavfi", "-i", "testsrc=duration=1:size=640x480:rate=1",
                    "-frames:v", "1", "-y">>

image_files == <<
    <<"example.png", <<"-codec:v", "png">> >>,
    <<"example.jpg", <<"-codec:v", "mjpeg", "-q:v", "5">> >>,
    <<"example.jpeg", <<"-codec:v", "mjpeg", "-q:v", "5">> >>,
    <<"example.bmp", <<"-codec:v", "bmp">> >>,
    <<"example.gif", <<"-codec:v", "gif">> >>,
    <<"example.webp", <<"-codec:v", "libwebp", "-quality", "80">> >>,
    <<"example.tif", <<"-codec:v", "tiff">> >>,
    <<"example.tiff", <<"-codec:v", "tiff">> >>,
    <<"example.ico", <<"-codec:v", "bmp", "-s", "32x32">> >> >>

apng_base_cmd == <<"ffmpeg", "-f", "lavfi", "-i", "testsrc=duration=0.1:size=640x480:rate=10">>
apng_args == <<"-frames:v", "2", "-codec:v", "apng", "-y">>

cur_temp_base_cmd == <<"ffmpeg", "-f", "lavfi", "-i", "testsrc=duration=0.1:size=32x32:rate=1">>
cur_temp_args == <<"-frames:v", "1", "-codec:v", "bmp", "-y">>
cur_temp_path == join(IMAGES_DIR, "example_cur_temp.bmp")

\* len(bmp_data): the BMP ffmpeg writes for one 32x32 frame of 24-bit pixels,
\* a 14-byte file header, a 40-byte info header and 32 * 32 * 3 pixel bytes.
bmp_data_len == 3126

\* int.to_bytes(k, 'little')
RECURSIVE to_bytes_little(_, _)
to_bytes_little(n, k) ==
    IF k = 0 THEN <<>> ELSE <<n % 256>> \o to_bytes_little(n \div 256, k - 1)

cur_header == <<0, 0, 2, 0, 1, 0>>

cur_entry(bmp_size) ==
    <<32, 32, 0, 0, 0, 0, 0, 0>> \o to_bytes_little(bmp_size, 4) \o to_bytes_little(22, 4)

\* cur_header + cur_entry + bmp_data[14:]
cur_content(bmp_data) ==
    [header |-> cur_header,
     entry |-> cur_entry(bmp_data_len - 14),
     image |-> [slice_of |-> bmp_data, from |-> 14]]

\* Path.read_bytes() of the temporary BMP: FileNotFoundError when missing.
cur_from_temp(s) ==
    IF s.raised # NONE THEN s
    ELSE IF ~Exists(s, cur_temp_path) THEN [s EXCEPT !.raised = FileNotFoundError]
    ELSE write_bytes(s, join(IMAGES_DIR, "example.cur"), cur_content(s.fs[cur_temp_path]))

\* The try block of the .cur file, and its `except Exception as e`.
cur_block(s) ==
    LET s1 == ffmpeg(s, cur_temp_base_cmd, cur_temp_args, cur_temp_path)
        s2 == cur_from_temp(s1)
        s3 == unlink(s2, cur_temp_path)
        s4 == print(s3, "Generated example.cur")
    IN  except(s4, AnyException, "Warning: Could not generate .cur file: " \o s4.raised)

svg_content == "<?xml version=\"1.0\" encoding=\"UTF-8\"?>\n<svg xmlns=\"http://www.w3.org/2000/svg\" width=\"640\" height=\"480\" viewBox=\"0 0 640 480\">\n  <defs>\n    <linearGradient id=\"grad1\" x1=\"0%\" y1=\"0%\" x2=\"100%\" y2=\"100%\">\n      <stop offset=\"0%\" style=\"stop-color:rgb(255,0,0);stop-opacity:1\" />\n      <stop offset=\"100%\" style=\"stop-color:rgb(0,0,255);stop-opacity:1\" />\n    </linearGradient>\n  </defs>\n  <rect width=\"640\" height=\"480\" fill=\"url(#grad1)\"/>\n  <circle cx=\"320\" cy=\"240\" r=\"100\" fill=\"white\" opacity=\"0.8\"/>\n  <text x=\"320\" y=\"250\" font-family=\"Arial\" font-size=\"24\" fill=\"black\" text-anchor=\"middle\">Example SVG</text>\n</svg>"

\* What gzip makes of `data`; `name` is the file name it records ("" for stdin).
GzipFile(name, data) == [tool |-> "gzip", name |-> name, data |-> data]

\* write_bytes(subprocess.run(["gzip", "-c"], input=..., check=True).stdout):
\* no try block surrounds it.
svgz_block(s) ==
    IF ~check_command("gzip") THEN s
    ELSE LET path == join(IMAGES_DIR, "example.svgz")
             s1 == subprocess_run(s, "gzip", path, TRUE,
                                  WriteFs(s.fs, path, GzipFile("", svg_content)))
         IN  print(s1, "Generated example.svgz")

generate_image_files(s) ==
    IF ~check_command("ffmpeg")
    THEN print(s, "Warning: ffmpeg not found. Skipping image file generation.")
    ELSE LET s1 == try_ffmpeg(s, apng_base_cmd, apng_args,
                              join(IMAGES_DIR, "example.apng"), "Generated example.apng",
                              "Warning: Could not generate APNG file")
             s2 == try_ffmpeg(s1, image_base_cmd, <<"-codec:v", "libavif", "-quality", "80">>,
                              join(IMAGES_DIR, "example.avif"), "Generated example.avif",
                              "Warning: Could not generate AVIF file (codec may not be available)")
             s3 == for_each_format(s2, IMAGES_DIR, image_base_cmd, image_files, 1)
             s4 == cur_block(s3)
             s5 == write_bytes(s4, join(IMAGES_DIR, "example.svg"), svg_content)
             s6 == svgz_block(s5)
         IN  print(s6, "Generated example.svg")

-----------------------------------------------------------------------------
(* generate_compressed_files                                               *)

RECURSIVE repeat(_, _)
repeat(text, n) == IF n = 0 THEN "" ELSE text \o repeat(text, n - 1)

sample_text == repeat("This is a sample text file for compression testing. ", 50)

sample_file == join(OTHER_DIR, "sample.txt")

\* An archive: the tool that wrote it and its members, name -> data.
Archive(tool, members) == [tool |-> tool, members |-> members]

\* zip adds to (or replaces in) the archive it finds, and creates it otherwise.
zip_into(f, archive, name, data) ==
    LET old == IF archive \in DOMAIN f THEN f[archive].members ELSE <<>>
    IN  Archive("zip", [m \in DOMAIN old \cup {name} |-> IF m = name THEN data ELSE old[m]])

\* The commands below name their files relative to the working directory.
\* try: os.chdir(OTHER_DIR); zip -q example.zip sample.txt; print
\* finally: os.chdir(original_cwd)
zip_block(s) ==
    IF s.raised # NONE THEN s
    ELSE IF ~check_command("zip") THEN print(s, "Warning: zip command not found")
    ELSE LET original_cwd == s.cwd
             s1 == chdir(s, OTHER_DIR)
             archive == join(s1.cwd, "example.zip")
             member == join(s1.cwd, "sample.txt")
             s2 == subprocess_run(s1, "zip", join(OTHER_DIR, "example.zip"),
                                  Exists(s1, member),
                                  WriteFs(s1.fs, archive,
                                          zip_into(s1.fs, archive, "sample.txt", s1.fs[member])))
             s3 == print(s2, "Generated example.zip")
         IN  finally_chdir(s3, original_cwd)

gz_path == join(OTHER_DIR, "example.gz")

\* cp sample.txt example.gz.tmp
cp(s, src, dst) ==
    subprocess_run(s, "cp", "cp", Exists(s, src), WriteFs(s.fs, dst, s.fs[src]))

\* gzip [-f] dir/name: writes dir/name.gz and removes dir/name; without -f it
\* refuses to overwrite an existing dir/name.gz.
gzip(s, force, dir, name) ==
    LET path == join(dir, name)
    IN  subprocess_run(s, "gzip", "gzip",
                       Exists(s, path) /\ (force \/ ~Exists(s, path \o ".gz")),
                       RemoveFs(WriteFs(s.fs, path \o ".gz", GzipFile(name, s.fs[path])), path))

\* mv src dst
mv(s, src, dst) ==
    subprocess_run(s, "mv", "mv", Exists(s, src), RemoveFs(WriteFs(s.fs, dst, s.fs[src]), src))

\* try: os.chdir(OTHER_DIR); tar -czf example.tgz sample.txt; print
\* finally: os.chdir(original_cwd)
tgz_block(s) ==
    IF s.raised # NONE THEN s
    ELSE IF ~check_command("tar") THEN s
    ELSE LET original_cwd == s.cwd
             s1 == chdir(s, OTHER_DIR)
             archive == join(s1.cwd, "example.tgz")
             member == join(s1.cwd, "sample.txt")
             s2 == subprocess_run(s1, "tar", join(OTHER_DIR, "example.tgz"),
                                  Exists(s1, member),
                                  WriteFs(s1.fs, archive,
                                          Archive("tar.gz", <<<<"sample.txt", s1.fs[member]>>>>)))
             s3 == print(s2, "Generated example.tgz")
         IN  finally_chdir(s3, original_cwd)

\* Mutation of gzip_block: gzip is run without -f.
gzip_block_without_force(s) ==
    IF s.raised # NONE THEN s
    ELSE IF ~check_command("gzip") THEN print(s, "Warning: gzip command not found")
    ELSE LET s1 == cp(s, sample_file, gz_path \o ".tmp")
             s2 == gzip(s1, FALSE, OTHER_DIR, "example.gz.tmp")
             s3 == mv(s2, gz_path \o ".tmp.gz", gz_path)
             s4 == print(s3, "Generated example.gz")
         IN  tgz_block(s4)

\* The GZIP block: cp, gzip -f, mv, then the TGZ block.
gzip_block(s) ==
    IF s.raised # NONE THEN s
    ELSE IF ~check_command("gzip") THEN print(s, "Warning: gzip command not found")
    ELSE LET s1 == cp(s, sample_file, gz_path \o ".tmp")
             s2 == gzip(s1, TRUE, OTHER_DIR, "example.gz.tmp")
             s3 == mv(s2, gz_path \o ".tmp.gz", gz_path)
             s4 == print(s3, "Generated example.gz")
         IN  tgz_block(s4)

generate_compressed_files(s) ==
    LET s1 == write_bytes(s, sample_file, sample_text)
        s2 == zip_block(s1)
        s3 == gzip_block(s2)
    IN  unlink(s3, sample_file)

-----------------------------------------------------------------------------
(* generate_other_files                                                    *)

\* bytes(range(256)) * 10, and slices of it: byte i of `len` bytes is i % 256.
binary_content == [cycle |-> 256, len |-> 256 * 10]

prefix(content, n) == [content EXCEPT !.len = IF n < @ THEN n ELSE @]

pdf_content == "%PDF-1.4\n1 0 obj\n<<\n/Type /Catalog\n/Pages 2 0 R\n>>\nendobj\n2 0 obj\n<<\n/Type /Pages\n/Kids [3 0 R]\n/Count 1\n>>\nendobj\n3 0 obj\n<<\n/Type /Page\n/Parent 2 0 R\n/MediaBox [0 0 612 792]\n/Contents 4 0 R\n/Resources <<\n/Font <<\n/F1 <<\n/Type /Font\n/Subtype /Type1\n/BaseFont /Helvetica\n>>\n>>\n>>\n>>\nendobj\n4 0 obj\n<<\n/Length 44\n>>\nstream\nBT\n/F1 12 Tf\n100 700 Td\n(Example PDF Document) Tj\nET\nendstream\nendobj\nxref\n0 5\n0000000000 65535 f\n0000000009 00000 n\n0000000058 00000 n\n0000000115 00000 n\n0000000306 00000 n\ntrailer\n<<\n/Size 5\n/Root 1 0 R\n>>\nstartxref\n400\n%%EOF"

wasm_content == <<0, 97, 115, 109, 1, 0, 0, 0>>

placeholder_exts == <<".dmg", ".iso", ".img">>

RECURSIVE for_each_placeholder(_, _)
for_each_placeholder(s, i) ==
    IF i > Len(placeholder_exts) THEN s
    ELSE LET name == "example" \o placeholder_exts[i]
             s1 == write_bytes(s, join(OTHER_DIR, name), prefix(binary_content, 1024))
         IN  for_each_placeholder(print(s1, "Generated " \o name), i + 1)

generate_other_files(s) ==
    LET s1 == print(write_bytes(s, join(OTHER_DIR, "example.bin"), binary_content),
                    "Generated example.bin")
        s2 == print(write_bytes(s1, join(OTHER_DIR, "example.pdf"), pdf_content),
                    "Generated example.pdf")
        s3 == print(write_bytes(s2, join(OTHER_DIR, "example.wasm"), wasm_content),
                    "Generated example.wasm")
    IN  for_each_placeholder(s3, 1)

-----------------------------------------------------------------------------
(* main, and the process around it                                         *)

Generators == {"audio", "video", "image", "compressed", "other"}

\* The order in which main calls the generators.
MainOrder == <<"audio", "video", "image", "compressed", "other">>

call(g, s) ==
    CASE g = "audio" -> generate_audio_files(s)
      [] g = "video" -> generate_video_files(s)
      [] g = "image" -> generate_image_files(s)
      [] g = "compressed" -> generate_compressed_files(s)
      [] g = "other" -> generate_other_files(s)

\* print("\nGenerating ... files...") before each call
announce(g) ==
    "\nGenerating " \o (IF g = "other" THEN "other binary" ELSE g) \o " files..."

\* The interpreter state the variables hold.
Current ==
    [fs |-> fs, out |-> out, att |-> att, cwd |-> cwd, chdirs |-> chdirs, raised |-> NONE]

\* Every place an external command is run to produce something.
TableSites(dir, table) == {join(dir, table[i][1]) : i \in 1..Len(table)}

AudioSites == TableSites(AUDIO_DIR, audio_files) \cup {join(AUDIO_DIR, "example.wma")}

VideoSites ==
    TableSites(VIDEO_DIR, video_files)
        \cup {join(VIDEO_DIR, "example.3gp"), join(VIDEO_DIR, "example.3g2"),
              join(VIDEO_DIR, "example.flv")}

ImageFfmpegSites ==
    TableSites(IMAGES_DIR, image_files)
        \cup {join(IMAGES_DIR, "example.apng"), join(IMAGES_DIR, "example.avif"), cur_temp_path}

ImageSites == ImageFfmpegSites \cup {join(IMAGES_DIR, "example.svgz")}

CompressedSites ==
    {join(OTHER_DIR, "example.zip"), "cp", "gzip", "mv", join(OTHER_DIR, "example.tgz")}

Sites == AudioSites \cup VideoSites \cup ImageSites \cup CompressedSites

\* The subsets of S with at most k elements.
RECURSIVE SubsetsUpTo(_, _)
SubsetsUpTo(S, k) ==
    IF k = 0 THEN {{}}
    ELSE LET smaller == SubsetsUpTo(S, k - 1)
         IN  smaller \cup {F \cup {x} : F \in smaller, x \in S}

Init ==
    /\ avail \in [Tools -> BOOLEAN]
    /\ failing \in SubsetsUpTo(Sites, MaxFailures)
    /\ dirs = {}
    /\ fs = <<>>
    /\ out = {}
    /\ att = <<>>
    /\ cwd = LAUNCH_DIR
    /\ chdirs = <<>>
    /\ pc = "import"
    /\ done = {}
    /\ crashedIn = "none"
    /\ exitCode = 0
    /\ run = 1
    /\ fsPrev = <<>>
    /\ exitPrev = 0

\* The module-level mkdir(exist_ok=True) calls, run when the script starts.
ModuleInit ==
    /\ pc = "import"
    /\ dirs' = dirs \cup {AUDIO_DIR, VIDEO_DIR, IMAGES_DIR, OTHER_DIR}
    /\ pc' = "banner"
    /\ UNCHANGED <<avail, failing, fs, out, att, cwd, chdirs, done, crashedIn,
                   exitCode, run, fsPrev, exitPrev>>

\* The opening prints of main.
MainStart ==
    /\ pc = "banner"
    /\ out' = out \cup {"Generating example files..."}
    /\ pc' = "main"
    /\ UNCHANGED <<avail, failing, dirs, fs, att, cwd, chdirs, done, crashedIn,
                   exitCode, run, fsPrev, exitPrev>>

\* main's next call is generator g.
IsNext(g) == Cardinality(done) < Len(MainOrder) /\ g = MainOrder[Cardinality(done) + 1]

\* One call of generator g from main.  An exception that escapes it ends the
\* process with a traceback and exit status 1.
Generate(g) ==
    /\ pc = "main"
    /\ g \notin done
    /\ \E s \in {call(g, print(Current, announce(g)))} :
           /\ fs' = s.fs
           /\ out' = s.out
           /\ att' = s.att
           /\ cwd' = s.cwd
           /\ chdirs' = s.chdirs
           /\ IF s.raised # NONE
              THEN pc' = "exited" /\ exitCode' = 1 /\ crashedIn' = g
              ELSE UNCHANGED <<pc, exitCode, crashedIn>>
    /\ done' = done \cup {g}
    /\ UNCHANGED <<avail, failing, dirs, run, fsPrev, exitPrev>>

GenerateAudio == IsNext("audio") /\ Generate("audio")
GenerateVideo == IsNext("video") /\ Generate("video")
GenerateImage == IsNext("image") /\ Generate("image")
GenerateCompressed == IsNext("compressed") /\ Generate("compressed")
GenerateOther == IsNext("other") /\ Generate("other")

\* The closing prints of main; the process then exits with status 0.
Complete ==
    /\ pc = "main"
    /\ done = Generators
    /\ out' = out \cup {"File generation complete!"}
    /\ pc' = "exited"
    /\ exitCode' = 0
    /\ UNCHANGED <<avail, failing, dirs, fs, att, cwd, chdirs, done, crashedIn,
                   run, fsPrev, exitPrev>>

\* The process state a new run starts from.
Restart ==
    /\ pc = "exited"
    /\ run = 1
    /\ run' = 2
    /\ fsPrev' = fs
    /\ exitPrev' = exitCode
    /\ pc' = "import"
    /\ out' = {}
    /\ att' = <<>>
    /\ cwd' = LAUNCH_DIR
    /\ chdirs' = <<>>
    /\ done' = {}
    /\ crashedIn' = "none"
    /\ exitCode' = 0
    /\ UNCHANGED <<avail, failing>>

\* The script is run a second time, in the same environment, on the files the
\* first run left.
Rerun == Restart /\ UNCHANGED <<dirs, fs>>

Next ==
    \/ ModuleInit
    \/ MainStart
    \/ GenerateAudio
    \/ GenerateVideo
    \/ GenerateImage
    \/ GenerateCompressed
    \/ GenerateOther
    \/ Complete
    \/ Rerun

Spec == Init /\ [][Next]_vars

\* The experiment behind order independence: a first run calls the generators
\* in main's order, then the output tree is emptied and a second run, in the
\* same environment, calls them in an arbitrary order.
RerunOnEmptyTree == Restart /\ dirs' = {} /\ fs' = <<>>

AnyOrderAudio == (run = 1 => IsNext("audio")) /\ Generate("audio")
AnyOrderVideo == (run = 1 => IsNext("video")) /\ Generate("video")
AnyOrderImage == (run = 1 => IsNext("image")) /\ Generate("image")
AnyOrderCompressed == (run = 1 => IsNext("compressed")) /\ Generate("compressed")
AnyOrderOther == (run = 1 => IsNext("other")) /\ Generate("other")

NextAnyOrder ==
    \/ ModuleInit
    \/ MainStart
    \/ AnyOrderAudio
    \/ AnyOrderVideo
    \/ AnyOrderImage
    \/ AnyOrderCompressed
    \/ AnyOrderOther
    \/ Complete
    \/ RerunOnEmptyTree

SpecAnyOrder == Init /\ [][NextAnyOrder]_vars

-----------------------------------------------------------------------------
(* What the specification lists, written out independently of the tables.  *)

OutputDirs == {AUDIO_DIR, VIDEO_DIR, IMAGES_DIR, OTHER_DIR}

MidiExts == {"mid", "midi", "kar", "rmi"}

OtherExts == {"bin", "pdf", "wasm", "dmg", "iso", "img"}

\* The extensions of the files example.<ext> listed for a directory.
ListedExts(dir) ==
    CASE dir = AUDIO_DIR ->
            MidiExts \cup {"wma", "mp3", "wav", "ogg", "oga", "spx", "aac", "adts", "flac",
                           "m4a", "weba"}
      [] dir = VIDEO_DIR ->
            {"3gp", "3g2", "flv", "mp4", "mp4v", "mpg4", "webm", "ogv", "avi", "mov", "qt",
             "mkv", "mpeg", "mpg", "mpe", "m1v", "m2v", "mpa", "h264"}
      [] dir = IMAGES_DIR ->
            {"apng", "avif", "png", "jpg", "jpeg", "bmp", "gif", "webp", "tif", "tiff",
             "ico", "cur", "svg", "svgz"}
      [] dir = OTHER_DIR -> {"zip", "gz", "tgz"} \cup OtherExts

Named(dir, exts) == {join(dir, "example." \o e) : e \in exts}

MidiFiles == Named(AUDIO_DIR, MidiExts)

OtherFiles == Named(OTHER_DIR, OtherExts)

ListedFiles == UNION {Named(dir, ListedExts(dir)) : dir \in OutputDirs}

Exited == pc = "exited"

AllToolsPresent == \A tool \in Tools : avail[tool]

\* The lines that account for a listed file being absent: the warning of its
\* own invocation, or the tool-not-found warning of its generator.
FailureWarnings(name) ==
    {"Warning: Could not generate " \o name \o ": " \o e : e \in AnyException}

SpecialWarnings ==
    [wma |-> {"Warning: Could not generate WMA file (codec may not be available)"},
     g3gp |-> {"Warning: Could not generate 3GP file"},
     g3g2 |-> {"Warning: Could not generate 3G2 file"},
     flv |-> {"Warning: Could not generate FLV file"},
     apng |-> {"Warning: Could not generate APNG file"},
     avif |-> {"Warning: Could not generate AVIF file (codec may not be available)"},
     cur |-> {"Warning: Could not generate .cur file: " \o e : e \in AnyException},
     zip |-> {"Warning: zip command not found"},
     gz |-> {"Warning: gzip command not found"}]

OwnWarnings(dir, ext) ==
    CASE ext = "wma" -> SpecialWarnings.wma
      [] ext = "3gp" -> SpecialWarnings.g3gp
      [] ext = "3g2" -> SpecialWarnings.g3g2
      [] ext = "flv" -> SpecialWarnings.flv
      [] ext = "apng" -> SpecialWarnings.apng
      [] ext = "avif" -> SpecialWarnings.avif
      [] ext = "cur" -> SpecialWarnings.cur
      [] ext = "zip" -> SpecialWarnings.zip
      [] ext \in {"gz", "tgz"} -> SpecialWarnings.gz
      [] OTHER -> FailureWarnings("example." \o ext)

NotFoundWarnings(dir) ==
    CASE dir = AUDIO_DIR -> {"Warning: ffmpeg not found. Skipping audio file generation."}
      [] dir = VIDEO_DIR -> {"Warning: ffmpeg not found. Skipping video file generation."}
      [] dir = IMAGES_DIR -> {"Warning: ffmpeg not found. Skipping image file generation."}
      [] OTHER -> {}

\* File dir/example.ext is present, or the run printed a line accounting for it.
PresentOrWarned(dir, ext) ==
    \/ join(dir, "example." \o ext) \in DOMAIN fs
    \/ (OwnWarnings(dir, ext) \cup NotFoundWarnings(dir)) \cap out # {}

-----------------------------------------------------------------------------
(* The claims.                                                             *)

\* C1: whatever tools are installed and whichever invocations fail, a run of
\* main reaches its final "File generation complete!" line and the process
\* exits with status 0.
C1_AlwaysExitsSuccessfully ==
    Exited => (exitCode = 0 /\ "File generation complete!" \in out)

\* C2: when the run has ended, however it ended, the transient file
\* other/sample.txt does not exist.
C2_SampleFileRemoved == Exited => sample_file \notin DOMAIN fs

\* C3: after a run, the hand-built outputs (the four MIDI files, example.wasm,
\* example.pdf, example.cur) exist with their fixed contents whatever tools
\* are installed and whichever invocations fail.  Stated for the runs that
\* reach the end of main, where the claim asks least.
C3_HandBuiltIndependentOfTools ==
    (Exited /\ exitCode = 0) =>
        /\ \A p \in MidiFiles : p \in DOMAIN fs /\ fs[p] = midi_content
        /\ join(OTHER_DIR, "example.wasm") \in DOMAIN fs
        /\ fs[join(OTHER_DIR, "example.wasm")] = wasm_content
        /\ join(OTHER_DIR, "example.pdf") \in DOMAIN fs
        /\ fs[join(OTHER_DIR, "example.pdf")] = pdf_content
        /\ join(IMAGES_DIR, "example.cur") \in DOMAIN fs
        /\ fs[join(IMAGES_DIR, "example.cur")].header = cur_header

\* C4: a missing or failing tool only affects the category that uses it: the
\* other-binary generator always runs and writes all of its files, and with
\* ffmpeg missing the compressed generator is still called.
C4_UnrelatedCategoriesComplete ==
    Exited =>
        /\ "other" \in done
        /\ OtherFiles \subseteq DOMAIN fs
        /\ (~avail["ffmpeg"] => "compressed" \in done)

\* C5: at the end of a run that started on empty output directories, every
\* listed file either exists or is absent with a warning accounting for it.
\* Stated for the runs that reach the end of main, where the claim asks least.
C5_PresentOrWarned ==
    (Exited /\ run = 1 /\ exitCode = 0) =>
        \A dir \in OutputDirs : \A ext \in ListedExts(dir) : PresentOrWarned(dir, ext)

\* C6: after a run in which every tool is installed and every invocation
\* succeeds, every listed output file exists.
C6_AllPresentAllListed ==
    (Exited /\ AllToolsPresent /\ failing = {}) =>
        (ListedFiles \subseteq DOMAIN fs /\ exitCode = 0)

\* C6 witness: a first run with every tool installed and nothing failing has
\* ended after calling all five generators.
C6_Witness ==
    /\ Exited
    /\ run = 1
    /\ AllToolsPresent
    /\ failing = {}
    /\ done = Generators

\* C7: in a fixed environment, the files (and leftover temporary files) and
\* their contents after a second run equal those after the first run.
C7_SecondRunSameFiles == (Exited /\ run = 2) => fs = fsPrev

\* C7 witness: a second run has ended in an environment where mv fails, so
\* that both runs leave the temporary example.gz.tmp.gz behind, next to files
\* that both runs wrote.
C7_Witness ==
    /\ Exited
    /\ run = 2
    /\ (gz_path \o ".tmp.gz") \in DOMAIN fs
    /\ join(OTHER_DIR, "example.zip") \in DOMAIN fs
    /\ join(AUDIO_DIR, "example.mp3") \in DOMAIN fs

\* C8: calling the five generators in any order gives the same final files
\* and the same exit status as main's order gives in the same environment.
C8_OrderIndependent ==
    (Exited /\ run = 2) => (fs = fsPrev /\ exitCode = exitPrev)

\* The invocations a generator makes when ffmpeg is installed.
ExpectedSites(g) ==
    CASE g = "audio" -> AudioSites
      [] g = "video" -> VideoSites
      [] g = "image" ->
            ImageFfmpegSites
                \cup (IF avail["gzip"] THEN {join(IMAGES_DIR, "example.svgz")} ELSE {})

\* C9: in the audio, video and image generators, a failed invocation does not
\* stop the generator: every invocation of the generator, the gzip that makes
\* example.svgz included, is made exactly once and the generator returns
\* normally to main.
C9_FailureDoesNotStopGenerator ==
    \A g \in {"audio", "video", "image"} :
        (g \in done /\ avail["ffmpeg"]) =>
            /\ crashedIn # g
            /\ \A site \in ExpectedSites(g) : Count(att, site) = 1

\* C10: the step that calls generate_compressed_files, whether the routine
\* returns or an exception leaves it, does not change the working directory.
C10_WorkingDirectoryUnchanged ==
    [][("compressed" \notin done /\ "compressed" \in done') => cwd' = cwd]_vars

\* C10 witness: the zip invocation failed inside its chdir into other/, the
\* exception left generate_compressed_files, and the chdir was undone.
C10_Witness ==
    /\ crashedIn = "compressed"
    /\ chdirs = <<OTHER_DIR, LAUNCH_DIR>>
    /\ cwd = LAUNCH_DIR

====
